---- MODULE Spec2Model ----
(***************************************************************************)
(* AuditMagic: the inventory store (ItemType / Item / Transaction rows),   *)
(* the repository layer that mutates it inside session_scope, and the      *)
(* service entry point create_item; then the search history, the           *)
(* configuration, session_scope step by step and the AddItemDialog, each   *)
(* with a specification of its own.                                        *)
(*                                                                         *)
(* A committed database is the triple of row sets (itemTypes, items,       *)
(* transactions).  Every repository call runs its body on a session copy   *)
(* of the committed database; session_scope commits that copy when the     *)
(* body ends normally and discards it when the body or the commit raises.  *)
(***************************************************************************)
EXTENDS Integers, FiniteSets, Sequences, TLC

VARIABLES itemTypes, items, transactions, last, commits, search_history,
          DEFAULT_CONFIG, config, aliased, CONFIG_FILE, scope, sessions, stored, dialog

configVars == <<DEFAULT_CONFIG, config, aliased, CONFIG_FILE>>

scopeVars == <<scope, sessions, stored>>

vars ==
    <<itemTypes, items, transactions, last, commits, search_history, configVars, scopeVars,
      dialog>>

(***************************************************************************)
(* Bounds of the exploration.                                              *)
(***************************************************************************)
MaxQty == 2
MaxCommits == 3

(***************************************************************************)
(* Values.  NULL is Python's None / SQL NULL; "" is the empty string.      *)
(* An optional boolean argument is <<>> (None) or <<b>>.                   *)
(***************************************************************************)
NULL == "<None>"

Names == {"A", "B"}
SubTypeArgs == {NULL, ""}
DetailsArgs == {NULL, "d"}
SerialArgs == {NULL, "", "SN1", "SN2"}
QuantityArgs == 0 .. MaxQty
OptBool == {<<>>, <<TRUE>>, <<FALSE>>}
\* Where the storage layer fails during a call: nowhere, at the body's last
\* flush, or at the commit.
Faults == {"none", "flush", "commit"}
\* The remaining arguments of the item calls, chosen together.  ItemDefaults:
\* place and notes left out, with any storage fault.  ItemExtras adds the call
\* with place and notes given.
ItemDefaults ==
    {[location |-> NULL, condition |-> NULL, notes |-> NULL, fault |-> f] : f \in Faults}

ItemExtras ==
    ItemDefaults \cup {[location |-> "L", condition |-> "C", notes |-> "n", fault |-> "none"]}

\* The same for the item type calls: details left out, or given.
TypeDefaults == {[details |-> NULL, fault |-> f] : f \in Faults}

TypeExtras == TypeDefaults \cup {[details |-> "d", fault |-> "none"]}

\* tr("transaction.notes.initial")
InitialNote == "initial"

\* Python truthiness of an optional string, and the idiom  x or default
Truthy(x) == x # NULL /\ x # ""

OrElse(x, d) == IF Truthy(x) THEN x ELSE d

Abs(n) == IF n < 0 THEN -n ELSE n

MaxOf(S) == CHOOSE m \in S : \A n \in S : n <= m

\* INTEGER PRIMARY KEY without AUTOINCREMENT: largest rowid + 1
NextId(rows) == IF rows = {} THEN 1 ELSE MaxOf({r.id : r \in rows}) + 1

(***************************************************************************)
(* The database as a value, and the storage constraints checked by flush.  *)
(***************************************************************************)
Db(t, i, x) == [types |-> t, items |-> i, txns |-> x]

committed == Db(itemTypes, items, transactions)

\* The check written with quantity >= 0 for bulk rows.
CheckSerialOrQuantity_ZeroAllowed(i) ==
    \/ i.serial_number = NULL /\ i.quantity >= 0
    \/ i.serial_number # NULL /\ i.quantity = 1

\* CheckConstraint check_serial_or_quantity on items
CheckSerialOrQuantity(i) ==
    \/ i.serial_number = NULL /\ i.quantity > 0
    \/ i.serial_number # NULL /\ i.quantity = 1

\* The table without its unique constraint.
UniqueNameSubtype_NotDeclared(types) == TRUE

\* UniqueConstraint uq_item_type_name_subtype on item_types
UniqueNameSubtype(types) ==
    \A a, b \in types :
        (a.name = b.name /\ a.sub_type = b.sub_type /\ a.sub_type # NULL) => a = b

\* The serial_number column without unique=True.
UniqueSerial_NotDeclared(its) == TRUE

\* unique=True on items.serial_number (NULLs are distinct)
UniqueSerial(its) ==
    \A a, b \in its :
        (a.serial_number = b.serial_number /\ a.serial_number # NULL) => a = b

\* The constraints the storage engine enforces when a flush writes s.
\* Foreign keys are declared but SQLite does not enforce them unless
\* PRAGMA foreign_keys is switched on, which db.py never does.
ConstraintsHold(s) ==
    /\ UniqueNameSubtype(s.types)
    /\ UniqueSerial(s.items)
    /\ \A i \in s.items : CheckSerialOrQuantity(i)

\* Outcome of a body: the session's view when it ends, the exception that
\* left it ("none" when it returned), and the returned value.
Outcome(s, exc, ret) == [s |-> s, exc |-> exc, ret |-> ret]

\* session.flush(): writes the pending session state s, or raises.
\* "then" is the outcome of the rest of the body once the flush succeeded.
Flush(s, failing, then) ==
    IF failing THEN Outcome(s, "StorageError", 0)
    ELSE IF ~ConstraintsHold(s) THEN Outcome(s, "IntegrityError", 0)
    ELSE then

\* session_scope without the rollback: what the body flushed stays.
session_scope_NoRollback(db, body, fault) ==
    IF body.exc # "none" THEN [db |-> body.s, exc |-> body.exc, ret |-> 0]
    ELSE IF fault = "commit" THEN [db |-> body.s, exc |-> "StorageError", ret |-> 0]
    ELSE IF ~ConstraintsHold(body.s) THEN [db |-> db, exc |-> "IntegrityError", ret |-> 0]
    ELSE [db |-> body.s, exc |-> "none", ret |-> body.ret]

\* session_scope(): commit when the body returned, roll back and re-raise
\* when the body or the commit raised.
session_scope(db, body, fault) ==
    IF body.exc # "none" THEN [db |-> db, exc |-> body.exc, ret |-> 0]
    ELSE IF fault = "commit" THEN [db |-> db, exc |-> "StorageError", ret |-> 0]
    ELSE IF ~ConstraintsHold(body.s) THEN [db |-> db, exc |-> "IntegrityError", ret |-> 0]
    ELSE [db |-> body.s, exc |-> "none", ret |-> body.ret]

(***************************************************************************)
(* ItemTypeRepository                                                      *)
(***************************************************************************)
NewItemType(s, name, sub_type, is_serialized, details) ==
    [id |-> NextId(s.types), name |-> name, sub_type |-> OrElse(sub_type, ""),
     is_serialized |-> is_serialized, details |-> OrElse(details, "")]

ItemTypeRepository_create(db, name, sub_type, is_serialized, details, fault) ==
    LET item_type == NewItemType(db, name, sub_type, is_serialized, details)
        s == [db EXCEPT !.types = @ \cup {item_type}]
    IN session_scope(db, Flush(s, fault = "flush", Outcome(s, "none", item_type.id)), fault)

\* get_or_create without the is_serialized conflict test.
ItemTypeRepository_get_or_create_NoConflictTest(db, name, sub_type, is_serialized, details, fault) ==
    LET found == {t \in db.types : t.name = name /\ t.sub_type = OrElse(sub_type, "")}
        item_type == [id |-> NextId(db.types), name |-> name,
                      sub_type |-> OrElse(sub_type, ""),
                      is_serialized |-> is_serialized, details |-> OrElse(details, "")]
        s == [db EXCEPT !.types = @ \cup {item_type}]
        body ==
            IF found # {}
            THEN Outcome(db, "none", (CHOOSE t \in found : TRUE).id)
            ELSE Flush(s, fault = "flush", Outcome(s, "none", item_type.id))
    IN session_scope(db, body, fault)

\* get_or_create that refreshes details on a get.
ItemTypeRepository_get_or_create_RefreshDetails(db, name, sub_type, is_serialized, details, fault) ==
    LET found == {t \in db.types : t.name = name /\ t.sub_type = OrElse(sub_type, "")}
        item_type == [id |-> NextId(db.types), name |-> name,
                      sub_type |-> OrElse(sub_type, ""),
                      is_serialized |-> is_serialized, details |-> OrElse(details, "")]
        s == [db EXCEPT !.types = @ \cup {item_type}]
        body ==
            IF found # {}
            THEN LET existing == CHOOSE t \in found : TRUE
                     refreshed == [existing EXCEPT !.details = OrElse(details, @)]
                     g == [db EXCEPT !.types = (@ \ {existing}) \cup {refreshed}]
                 IN IF existing.is_serialized # is_serialized
                    THEN Outcome(db, "ValueError", 0)
                    ELSE Outcome(g, "none", existing.id)
            ELSE Flush(s, fault = "flush", Outcome(s, "none", item_type.id))
    IN session_scope(db, body, fault)

ItemTypeRepository_get_or_create(db, name, sub_type, is_serialized, details, fault) ==
    LET found == {t \in db.types : t.name = name /\ t.sub_type = OrElse(sub_type, "")}
        item_type == NewItemType(db, name, sub_type, is_serialized, details)
        s == [db EXCEPT !.types = @ \cup {item_type}]
        body ==
            IF found # {}
            THEN LET existing == CHOOSE t \in found : TRUE
                 IN IF existing.is_serialized # is_serialized
                    THEN Outcome(db, "ValueError", 0)
                    ELSE Outcome(db, "none", existing.id)
            ELSE Flush(s, fault = "flush", Outcome(s, "none", item_type.id))
    IN session_scope(db, body, fault)

\* update without the item_count guard.
ItemTypeRepository_update_Unguarded(db, type_id, name, sub_type, is_serialized, details, fault) ==
    LET found == {t \in db.types : t.id = type_id}
        body ==
            IF found = {} THEN Outcome(db, "none", 0)
            ELSE
              LET item_type == CHOOSE t \in found : TRUE
                  t1 == IF name # NULL THEN [item_type EXCEPT !.name = name] ELSE item_type
                  t2 == IF sub_type # NULL THEN [t1 EXCEPT !.sub_type = sub_type] ELSE t1
                  t3 == IF is_serialized # <<>>
                        THEN [t2 EXCEPT !.is_serialized = is_serialized[1]] ELSE t2
                  t4 == IF details # NULL THEN [t3 EXCEPT !.details = details] ELSE t3
                  s == [db EXCEPT !.types = (@ \ {item_type}) \cup {t4}]
              IN Flush(s, fault = "flush", Outcome(s, "none", type_id))
    IN session_scope(db, body, fault)

ItemTypeRepository_update(db, type_id, name, sub_type, is_serialized, details, fault) ==
    LET found == {t \in db.types : t.id = type_id}
        body ==
            IF found = {} THEN Outcome(db, "none", 0)
            ELSE
              LET item_type == CHOOSE t \in found : TRUE
                  t1 == IF name # NULL THEN [item_type EXCEPT !.name = name] ELSE item_type
                  t2 == IF sub_type # NULL THEN [t1 EXCEPT !.sub_type = sub_type] ELSE t1
                  changing == is_serialized # <<>> /\ item_type.is_serialized # is_serialized[1]
                  item_count == Cardinality({i \in db.items : i.item_type_id = type_id})
                  t3 == IF changing THEN [t2 EXCEPT !.is_serialized = is_serialized[1]] ELSE t2
                  t4 == IF details # NULL THEN [t3 EXCEPT !.details = details] ELSE t3
                  pending == [db EXCEPT !.types = (@ \ {item_type}) \cup {t2}]
                  s == [db EXCEPT !.types = (@ \ {item_type}) \cup {t4}]
              IN IF changing /\ item_count > 0
                 THEN Outcome(pending, "ValueError", 0)
                 ELSE Flush(s, fault = "flush", Outcome(s, "none", type_id))
    IN session_scope(db, body, fault)

\* delete without step 1: the type's transactions stay.
ItemTypeRepository_delete_KeepTransactions(db, type_id, fault) ==
    LET found == {t \in db.types : t.id = type_id}
        s2 == [db EXCEPT !.types = {t \in @ : t.id # type_id},
                         !.items = {i \in @ : i.item_type_id # type_id}]
        body ==
            IF found = {} THEN Outcome(db, "none", 0)
            ELSE Flush(db, fault = "flush", Outcome(s2, "none", 1))
    IN session_scope(db, body, fault)

ItemTypeRepository_delete(db, type_id, fault) ==
    LET found == {t \in db.types : t.id = type_id}
        s1 == [db EXCEPT !.txns = {x \in @ : x.item_type_id # type_id}]
        s2 == [s1 EXCEPT !.types = {t \in @ : t.id # type_id},
                         !.items = {i \in @ : i.item_type_id # type_id}]
        body ==
            IF found = {} THEN Outcome(db, "none", 0)
            ELSE Flush(s1, fault = "flush", Outcome(s2, "none", 1))
    IN session_scope(db, body, fault)

(***************************************************************************)
(* ItemRepository                                                          *)
(***************************************************************************)
NewItem(s, item_type_id, quantity, serial_number, location, condition) ==
    [id |-> NextId(s.items), item_type_id |-> item_type_id, quantity |-> quantity,
     serial_number |-> serial_number,
     location |-> OrElse(location, ""), condition |-> OrElse(condition, "")]

NewTransaction(id, item_type_id, transaction_type, change, before, after, serial_number, notes) ==
    [id |-> id, item_type_id |-> item_type_id, transaction_type |-> transaction_type,
     quantity_change |-> change, quantity_before |-> before, quantity_after |-> after,
     serial_number |-> serial_number, notes |-> notes]

\* create without the quantity test for serialized types.
ItemRepository_create_NoQuantityTest(db, item_type_id, quantity, serial_number, location, condition, transaction_notes, fault) ==
    LET found == {t \in db.types : t.id = item_type_id}
        item_type == CHOOSE t \in found : TRUE
        item == NewItem(db, item_type_id, quantity, OrElse(serial_number, NULL),
                        location, condition)
        s1 == [db EXCEPT !.items = @ \cup {item}]
        transaction == NewTransaction(NextId(db.txns), item_type_id, "ADD", quantity, 0,
                                      quantity, OrElse(serial_number, NULL),
                                      OrElse(transaction_notes, InitialNote))
        s2 == IF quantity > 0 THEN [s1 EXCEPT !.txns = @ \cup {transaction}] ELSE s1
        body ==
            IF found = {} THEN Outcome(db, "ValueError", 0)
            ELSE IF item_type.is_serialized /\ ~Truthy(serial_number)
                 THEN Outcome(db, "ValueError", 0)
            ELSE IF ~item_type.is_serialized /\ Truthy(serial_number)
                 THEN Outcome(db, "ValueError", 0)
            ELSE IF ~item_type.is_serialized /\ quantity < 1
                 THEN Outcome(db, "ValueError", 0)
            ELSE Flush(s1, FALSE,
                       Flush(s2, fault = "flush", Outcome(s2, "none", item.id)))
    IN session_scope(db, body, fault)

ItemRepository_create(db, item_type_id, quantity, serial_number, location, condition, transaction_notes, fault) ==
    LET found == {t \in db.types : t.id = item_type_id}
        item_type == CHOOSE t \in found : TRUE
        item == NewItem(db, item_type_id, quantity, OrElse(serial_number, NULL),
                        location, condition)
        s1 == [db EXCEPT !.items = @ \cup {item}]
        transaction == NewTransaction(NextId(db.txns), item_type_id, "ADD", quantity, 0,
                                      quantity, OrElse(serial_number, NULL),
                                      OrElse(transaction_notes, InitialNote))
        s2 == IF quantity > 0 THEN [s1 EXCEPT !.txns = @ \cup {transaction}] ELSE s1
        body ==
            IF found = {} THEN Outcome(db, "ValueError", 0)
            ELSE IF item_type.is_serialized /\ ~Truthy(serial_number)
                 THEN Outcome(db, "ValueError", 0)
            ELSE IF item_type.is_serialized /\ quantity # 1
                 THEN Outcome(db, "ValueError", 0)
            ELSE IF ~item_type.is_serialized /\ Truthy(serial_number)
                 THEN Outcome(db, "ValueError", 0)
            ELSE IF ~item_type.is_serialized /\ quantity < 1
                 THEN Outcome(db, "ValueError", 0)
            ELSE Flush(s1, FALSE,
                       Flush(s2, fault = "flush", Outcome(s2, "none", item.id)))
    IN session_scope(db, body, fault)

\* create_serialized that logs the new item's own quantity, as create does.
ItemRepository_create_serialized_ItemQuantity(db, item_type_id, serial_number, location, condition, notes, fault) ==
    LET found == {t \in db.types : t.id = item_type_id}
        item_type == CHOOSE t \in found : TRUE
        existing_count == Cardinality({i \in db.items : i.item_type_id = item_type_id})
        item == NewItem(db, item_type_id, 1, serial_number, location, condition)
        s1 == [db EXCEPT !.items = @ \cup {item}]
        transaction_notes == IF existing_count = 0 THEN InitialNote ELSE OrElse(notes, "")
        transaction == NewTransaction(NextId(db.txns), item_type_id, "ADD", 1, 0, 1,
                                      serial_number, transaction_notes)
        s2 == [s1 EXCEPT !.txns = @ \cup {transaction}]
        body ==
            IF found = {} THEN Outcome(db, "ValueError", 0)
            ELSE IF ~item_type.is_serialized THEN Outcome(db, "ValueError", 0)
            ELSE Flush(s1, FALSE,
                       Flush(s2, fault = "flush", Outcome(s2, "none", item.id)))
    IN IF ~Truthy(serial_number)
       THEN [db |-> db, exc |-> "ValueError", ret |-> 0]
       ELSE session_scope(db, body, fault)

ItemRepository_create_serialized(db, item_type_id, serial_number, location, condition, notes, fault) ==
    LET found == {t \in db.types : t.id = item_type_id}
        item_type == CHOOSE t \in found : TRUE
        existing_count == Cardinality({i \in db.items : i.item_type_id = item_type_id})
        item == NewItem(db, item_type_id, 1, serial_number, location, condition)
        s1 == [db EXCEPT !.items = @ \cup {item}]
        transaction_notes == IF existing_count = 0 THEN InitialNote ELSE OrElse(notes, "")
        transaction == NewTransaction(NextId(db.txns), item_type_id, "ADD", 1, existing_count,
                                      existing_count + 1, serial_number, transaction_notes)
        s2 == [s1 EXCEPT !.txns = @ \cup {transaction}]
        body ==
            IF found = {} THEN Outcome(db, "ValueError", 0)
            ELSE IF ~item_type.is_serialized THEN Outcome(db, "ValueError", 0)
            ELSE Flush(s1, FALSE,
                       Flush(s2, fault = "flush", Outcome(s2, "none", item.id)))
    IN IF ~Truthy(serial_number)
       THEN [db |-> db, exc |-> "ValueError", ret |-> 0]
       ELSE session_scope(db, body, fault)

ItemRepository_update(db, item_id, serial_number, location, condition, fault) ==
    LET found == {i \in db.items : i.id = item_id}
        item == CHOOSE i \in found : TRUE
        i1 == IF serial_number # NULL
              THEN [item EXCEPT !.serial_number = OrElse(serial_number, NULL)] ELSE item
        i2 == IF location # NULL THEN [i1 EXCEPT !.location = location] ELSE i1
        i3 == IF condition # NULL THEN [i2 EXCEPT !.condition = condition] ELSE i2
        s == [db EXCEPT !.items = (@ \ {item}) \cup {i3}]
        body ==
            IF found = {} THEN Outcome(db, "none", 0)
            ELSE Flush(s, fault = "flush", Outcome(s, "none", item_id))
    IN session_scope(db, body, fault)

\* edit_item that logs the signed difference.
ItemRepository_edit_item_SignedChange(db, item_id, item_type_id, quantity, serial_number, location, condition, edit_reason, fault) ==
    LET found == {i \in db.items : i.id = item_id}
        item == CHOOSE i \in found : TRUE
        quantity_before == item.quantity
        edited == [item EXCEPT !.item_type_id = item_type_id, !.quantity = quantity,
                               !.serial_number = OrElse(serial_number, NULL),
                               !.location = OrElse(location, ""),
                               !.condition = OrElse(condition, "")]
        quantity_diff == quantity - quantity_before
        edit_transaction == NewTransaction(NextId(db.txns), item_type_id, "EDIT",
                                           quantity_diff, quantity_before, quantity,
                                           NULL, edit_reason)
        s == [db EXCEPT !.items = (@ \ {item}) \cup {edited},
                        !.txns = @ \cup {edit_transaction}]
        body ==
            IF found = {} THEN Outcome(db, "none", 0)
            ELSE Flush(s, fault = "flush", Outcome(s, "none", item_id))
    IN session_scope(db, body, fault)

ItemRepository_edit_item(db, item_id, item_type_id, quantity, serial_number, location, condition, edit_reason, fault) ==
    LET found == {i \in db.items : i.id = item_id}
        item == CHOOSE i \in found : TRUE
        quantity_before == item.quantity
        edited == [item EXCEPT !.item_type_id = item_type_id, !.quantity = quantity,
                               !.serial_number = OrElse(serial_number, NULL),
                               !.location = OrElse(location, ""),
                               !.condition = OrElse(condition, "")]
        quantity_diff == quantity - quantity_before
        edit_transaction == NewTransaction(NextId(db.txns), item_type_id, "EDIT",
                                           Abs(quantity_diff), quantity_before, quantity,
                                           NULL, edit_reason)
        s == [db EXCEPT !.items = (@ \ {item}) \cup {edited},
                        !.txns = @ \cup {edit_transaction}]
        body ==
            IF found = {} THEN Outcome(db, "none", 0)
            ELSE Flush(s, fault = "flush", Outcome(s, "none", item_id))
    IN session_scope(db, body, fault)

\* delete that raises on an id without a row instead of returning False.
ItemRepository_delete_MissingRaises(db, item_id, fault) ==
    LET found == {i \in db.items : i.id = item_id}
        s == [db EXCEPT !.items = @ \ found]
        body ==
            IF found = {} THEN Outcome(db, "LookupError", 0)
            ELSE Outcome(s, "none", 1)
    IN session_scope(db, body, fault)

\* delete that also removes the transactions of the item's type.
ItemRepository_delete_WithTransactions(db, item_id, fault) ==
    LET found == {i \in db.items : i.id = item_id}
        s == [db EXCEPT !.items = @ \ found,
                        !.txns = {x \in @ : \A i \in found :
                                               x.item_type_id # i.item_type_id}]
        body ==
            IF found = {} THEN Outcome(db, "none", 0)
            ELSE Outcome(s, "none", 1)
    IN session_scope(db, body, fault)

ItemRepository_delete(db, item_id, fault) ==
    LET found == {i \in db.items : i.id = item_id}
        s == [db EXCEPT !.items = @ \ found]
        body ==
            IF found = {} THEN Outcome(db, "none", 0)
            ELSE Outcome(s, "none", 1)
    IN session_scope(db, body, fault)

ItemRepository_add_quantity(db, item_id, quantity, notes, fault) ==
    LET found == {i \in db.items : i.id = item_id}
        item == CHOOSE i \in found : TRUE
        quantity_before == item.quantity
        added == [item EXCEPT !.quantity = @ + quantity]
        transaction == NewTransaction(NextId(db.txns), item.item_type_id, "ADD", quantity,
                                      quantity_before, added.quantity, NULL,
                                      OrElse(notes, ""))
        s == [db EXCEPT !.items = (@ \ {item}) \cup {added},
                        !.txns = @ \cup {transaction}]
        body ==
            IF found = {} THEN Outcome(db, "none", 0)
            ELSE Flush(s, fault = "flush", Outcome(s, "none", item_id))
    IN IF quantity <= 0
       THEN [db |-> db, exc |-> "ValueError", ret |-> 0]
       ELSE session_scope(db, body, fault)

\* remove_quantity without the on-hand test.
ItemRepository_remove_quantity_NoStockTest(db, item_id, quantity, notes, fault) ==
    LET found == {i \in db.items : i.id = item_id}
        item == CHOOSE i \in found : TRUE
        quantity_before == item.quantity
        removed == [item EXCEPT !.quantity = @ - quantity]
        transaction == NewTransaction(NextId(db.txns), item.item_type_id, "REMOVE", quantity,
                                      quantity_before, removed.quantity, NULL,
                                      OrElse(notes, ""))
        s == [db EXCEPT !.items = (@ \ {item}) \cup {removed},
                        !.txns = @ \cup {transaction}]
        body ==
            IF found = {} THEN Outcome(db, "none", 0)
            ELSE Flush(s, fault = "flush", Outcome(s, "none", item_id))
    IN IF quantity <= 0
       THEN [db |-> db, exc |-> "ValueError", ret |-> 0]
       ELSE session_scope(db, body, fault)

\* remove_quantity that reads quantity_before after the decrement.
ItemRepository_remove_quantity_LateBefore(db, item_id, quantity, notes, fault) ==
    LET found == {i \in db.items : i.id = item_id}
        item == CHOOSE i \in found : TRUE
        removed == [item EXCEPT !.quantity = @ - quantity]
        quantity_before == removed.quantity
        transaction == [id |-> NextId(db.txns), item_type_id |-> item.item_type_id,
                        transaction_type |-> "REMOVE", quantity_change |-> quantity,
                        quantity_before |-> quantity_before,
                        quantity_after |-> removed.quantity,
                        serial_number |-> NULL, notes |-> OrElse(notes, "")]
        s == [db EXCEPT !.items = (@ \ {item}) \cup {removed},
                        !.txns = @ \cup {transaction}]
        body ==
            IF found = {} THEN Outcome(db, "none", 0)
            ELSE IF item.quantity < quantity THEN Outcome(db, "ValueError", 0)
            ELSE Flush(s, fault = "flush", Outcome(s, "none", item_id))
    IN IF quantity <= 0
       THEN [db |-> db, exc |-> "ValueError", ret |-> 0]
       ELSE session_scope(db, body, fault)

ItemRepository_remove_quantity(db, item_id, quantity, notes, fault) ==
    LET found == {i \in db.items : i.id = item_id}
        item == CHOOSE i \in found : TRUE
        quantity_before == item.quantity
        removed == [item EXCEPT !.quantity = @ - quantity]
        transaction == NewTransaction(NextId(db.txns), item.item_type_id, "REMOVE", quantity,
                                      quantity_before, removed.quantity, NULL,
                                      OrElse(notes, ""))
        s == [db EXCEPT !.items = (@ \ {item}) \cup {removed},
                        !.txns = @ \cup {transaction}]
        body ==
            IF found = {} THEN Outcome(db, "none", 0)
            ELSE IF item.quantity < quantity THEN Outcome(db, "ValueError", 0)
            ELSE Flush(s, fault = "flush", Outcome(s, "none", item_id))
    IN IF quantity <= 0
       THEN [db |-> db, exc |-> "ValueError", ret |-> 0]
       ELSE session_scope(db, body, fault)

\* delete_by_serial_numbers that logs one REMOVE for the whole batch.
ItemRepository_delete_by_serial_numbers_OneRecord(db, serial_numbers, notes, fault) ==
    LET matched == {i \in db.items : i.serial_number \in serial_numbers}
        count == Cardinality(matched)
        first == CHOOSE i \in matched : \A j \in matched : i.id <= j.id
        removals == IF matched = {} THEN {}
                    ELSE {NewTransaction(NextId(db.txns), first.item_type_id, "REMOVE",
                                         count, count, 0, first.serial_number, notes)}
        s1 == [db EXCEPT !.txns = @ \cup removals]
        s2 == [s1 EXCEPT !.items = @ \ matched]
        body == Flush(s1, fault = "flush", Outcome(s2, "none", count))
    IN IF serial_numbers = {}
       THEN [db |-> db, exc |-> "none", ret |-> 0]
       ELSE session_scope(db, body, fault)

ItemRepository_delete_by_serial_numbers(db, serial_numbers, notes, fault) ==
    LET matched == {i \in db.items : i.serial_number \in serial_numbers}
        count == Cardinality(matched)
        rank(i) == Cardinality({j \in matched : j.id < i.id})
        removals == {NewTransaction(NextId(db.txns) + rank(i), i.item_type_id, "REMOVE",
                                    1, 1, 0, i.serial_number, notes) : i \in matched}
        s1 == [db EXCEPT !.txns = @ \cup removals]
        s2 == [s1 EXCEPT !.items = @ \ matched]
        body == Flush(s1, fault = "flush", Outcome(s2, "none", count))
    IN IF serial_numbers = {}
       THEN [db |-> db, exc |-> "none", ret |-> 0]
       ELSE session_scope(db, body, fault)

(***************************************************************************)
(* ItemType.total_quantity: the sum of the quantities of the type's items. *)
(***************************************************************************)
RECURSIVE SumQuantity(_)
SumQuantity(its) ==
    IF its = {} THEN 0
    ELSE LET i == CHOOSE j \in its : TRUE
         IN i.quantity + SumQuantity(its \ {i})

total_quantity(its, type_id) == SumQuantity({i \in its : i.item_type_id = type_id})

(***************************************************************************)
(* InventoryService                                                        *)
(***************************************************************************)
\* create_item passes notes=notes to ItemRepository.create, whose parameter
\* is transaction_notes: the call raises TypeError before create's body runs,
\* after get_or_create has committed in its own session.
InventoryService_create_item(db, item_type_name, item_sub_type, quantity, is_serialized, serial_number, location, condition, notes, details, fault) ==
    LET got == ItemTypeRepository_get_or_create(db, item_type_name, item_sub_type,
                                                is_serialized, details, fault)
    IN IF got.exc # "none" THEN got
       ELSE [db |-> got.db, exc |-> "TypeError", ret |-> 0]

(***************************************************************************)
(* The configuration (config.py).  DEFAULT_CONFIG is the module's dict,    *)
(* config the _config dict of the Config instance, CONFIG_FILE the JSON    *)
(* file.  A section ("window", "search") is a nested dict object: aliased  *)
(* is the set of sections whose object in config is the very object of     *)
(* DEFAULT_CONFIG, as dict.copy() copies the top level only.  A key is the *)
(* list key.split(".") of its parts.                                       *)
(***************************************************************************)
\* DEFAULT_CONFIG as declared: one top-level value and two sections.
Declared ==
    [theme |-> "Light", window |-> [maximized |-> FALSE], search |-> [history_limit |-> 5]]

Sections == {"window", "search"}

KeyArgs == {<<"theme">>, <<"window", "maximized">>, <<"search", "history_limit">>}

ValueArgs(key) ==
    IF key = <<"theme">> THEN {"Light", "Dark"}
    ELSE IF key = <<"window", "maximized">> THEN BOOLEAN
    ELSE {5, 10}

NoFile == [exists |-> FALSE, content |-> Declared]

ConfigState(d, c, a, f) == [DEFAULT_CONFIG |-> d, config |-> c, aliased |-> a, CONFIG_FILE |-> f]

Config_get(cfg, key) == IF Len(key) = 1 THEN cfg[key[1]] ELSE cfg[key[1]][key[2]]

\* written: whether the file could be written (a failure is logged, not raised).
Config_save(st, written) ==
    IF written THEN [st EXCEPT !.CONFIG_FILE = [exists |-> TRUE, content |-> st.config]]
    ELSE st

\* A write into a section goes to the section's dict object, which is also
\* DEFAULT_CONFIG's when the section is aliased.
Config_set(st, key, value, save, written) ==
    LET k == key[1]
        s1 == IF Len(key) = 1 THEN [st EXCEPT !.config[k] = value]
              ELSE [st EXCEPT !.config[k][key[2]] = value,
                              !.DEFAULT_CONFIG[k][key[2]] =
                                  IF k \in st.aliased THEN value ELSE @]
    IN IF save THEN Config_save(s1, written) ELSE s1

Config_reset(st, written) ==
    Config_save([st EXCEPT !.config = st.DEFAULT_CONFIG, !.aliased = Sections], written)

\* The merged dict has a new dict object for every section found in the file.
Config_merge_configs(default, loaded) ==
    [k \in DOMAIN default |->
        IF k \in Sections THEN [j \in DOMAIN default[k] |-> loaded[k][j]] ELSE loaded[k]]

\* Config() in a new process: the module is imported afresh, then load().
Config_load(file, written) ==
    IF file.exists
    THEN ConfigState(Declared, Config_merge_configs(Declared, file.content), {}, file)
    ELSE Config_save(ConfigState(Declared, Declared, Sections, file), written)

\* The configuration as the first launch leaves it.
ConfigLoaded ==
    LET st == Config_load(NoFile, TRUE)
    IN /\ DEFAULT_CONFIG = st.DEFAULT_CONFIG
       /\ config = st.config
       /\ aliased = st.aliased
       /\ CONFIG_FILE = st.CONFIG_FILE

(***************************************************************************)
(* session_scope step by step (db.py).  sessions lists the Session objects *)
(* get_session() has returned, each with its state (open or closed) and    *)
(* the state of its transaction; a session's writes is the value its       *)
(* transaction would store.  stored is the committed value.  scope is the  *)
(* running call: its place in session_scope, the exception in flight, how  *)
(* the body ended, the value stored when the call began, and the Session   *)
(* methods called so far.                                                  *)
(***************************************************************************)
MaxSessions == 3

WriteArgs == {1, 2}

\* What a with-body may raise: an Exception, or a BaseException that is not
\* one (KeyboardInterrupt).
BodyExceptions == {"BodyError", "KeyboardInterrupt"}

NoCall == [pc |-> "idle", exc |-> "none", body |-> "none", before |-> 0, log |-> <<>>]

ScopeIdle ==
    /\ scope = NoCall
    /\ sessions = <<>>
    /\ stored = 0

\* except Exception: does the clause catch the exception?
IsException(exc) == exc # "KeyboardInterrupt"

\* The raise statement that is left out of the except clause.
Reraise_Swallowed(exc) == "none"

\* The raise statement of the except clause.
Reraise(exc) == exc

\* Session.close(): the session is closed and a transaction still active is
\* given up.
Session_close(session) ==
    [session EXCEPT !.state = "closed",
                    !.txn = IF @ = "active" THEN "rolled_back" ELSE @]

current == Len(sessions)

(***************************************************************************)
(* AddItemDialog (ui_entities/add_item_dialog.py): the text of the type    *)
(* and sub-type fields, the serialized checkbox (checked, enabled) and the *)
(* status label under it.                                                  *)
(***************************************************************************)
NoDialog ==
    [open |-> FALSE, type_edit |-> "", subtype_edit |-> "", checked |-> FALSE,
     enabled |-> TRUE, type_status_label |-> ""]

\* What the user may type into the type field and into the sub-type field.
TypeTexts == {"", " ", "A", " A ", "B", "C"}

SubtypeTexts == {"", "x", " x"}

\* str.strip() on the texts above.
Strip(text) ==
    CASE text = " " -> ""
      [] text = " A " -> "A"
      [] text = " x" -> "x"
      [] OTHER -> text

\* The type rows found for (name, sub_type): none or one.
ItemTypeRepository_get_by_name_and_subtype(db, name, sub_type, fault) ==
    LET found == {t \in db.types : t.name = name /\ t.sub_type = OrElse(sub_type, "")}
    IN IF fault = "commit" THEN [exc |-> "StorageError", found |-> {}]
       ELSE [exc |-> "none", found |-> found]

\* The service's lookup used by the dialog: the repository's lookup.
InventoryService_get_item_type_by_name_subtype(db, name, sub_type, fault) ==
    ItemTypeRepository_get_by_name_and_subtype(db, name, sub_type, fault)

AddItemDialog_unlock_serialized_checkbox(d) == [d EXCEPT !.enabled = TRUE]

\* The handler without the lock: an existing type only sets the label.
AddItemDialog_on_type_or_subtype_changed_NoLock(d, db, fault) ==
    LET type_name == Strip(d.type_edit)
        sub_type == Strip(d.subtype_edit)
        looked == InventoryService_get_item_type_by_name_subtype(db, type_name, sub_type, fault)
        existing == CHOOSE t \in looked.found : TRUE
    IN IF type_name = ""
       THEN [d |-> [AddItemDialog_unlock_serialized_checkbox(d) EXCEPT
                        !.type_status_label = ""],
             exc |-> "none"]
       ELSE IF looked.exc # "none" THEN [d |-> d, exc |-> looked.exc]
       ELSE IF looked.found # {}
       THEN [d |-> [d EXCEPT !.type_status_label =
                                 IF existing.is_serialized
                                 THEN "message.type_exists_serialized"
                                 ELSE "message.type_exists_non_serialized"],
             exc |-> "none"]
       ELSE [d |-> [AddItemDialog_unlock_serialized_checkbox(d) EXCEPT
                        !.type_status_label = ""],
             exc |-> "none"]

\* _on_type_or_subtype_changed: the dialog after the handler, and the
\* exception the handler caught and logged ("none" when there was none).
AddItemDialog_on_type_or_subtype_changed(d, db, fault) ==
    LET type_name == Strip(d.type_edit)
        sub_type == Strip(d.subtype_edit)
        looked == InventoryService_get_item_type_by_name_subtype(db, type_name, sub_type, fault)
        existing == CHOOSE t \in looked.found : TRUE
    IN IF type_name = ""
       THEN [d |-> [AddItemDialog_unlock_serialized_checkbox(d) EXCEPT
                        !.type_status_label = ""],
             exc |-> "none"]
       ELSE IF looked.exc # "none" THEN [d |-> d, exc |-> looked.exc]
       ELSE IF looked.found # {}
       THEN [d |-> [d EXCEPT !.checked = existing.is_serialized,
                             !.enabled = FALSE,
                             !.type_status_label =
                                 IF existing.is_serialized
                                 THEN "message.type_exists_serialized"
                                 ELSE "message.type_exists_non_serialized"],
             exc |-> "none"]
       ELSE [d |-> [AddItemDialog_unlock_serialized_checkbox(d) EXCEPT
                        !.type_status_label = ""],
             exc |-> "none"]

DialogClosed == dialog = NoDialog

(***************************************************************************)
(* The state machine: one action per public operation.  Every action runs  *)
(* the whole call (body, flushes, commit or rollback) and records in last  *)
(* the operation, the exception it raised ("none" if it returned) and the  *)
(* returned value (an id or a count; 1/0 for True/False; 0 for None).      *)
(* The application is single threaded: a call is made from the event loop  *)
(* and the loop takes the next event once the call has returned or raised  *)
(* (EventLoop).  commits counts the calls that changed the committed       *)
(* database.                                                               *)
(***************************************************************************)
\* The ids a caller passes: those of the rows that exist, and one that does not.
TypeIdArgs == {t.id : t \in itemTypes} \cup {NextId(itemTypes)}

ItemIdArgs == {i.id : i \in items} \cup {NextId(items)}

Idle == [op |-> "idle", result |-> "none", ret |-> 0]

Init ==
    /\ itemTypes = {}
    /\ items = {}
    /\ transactions = {}
    /\ last = Idle
    /\ commits = 0
    /\ search_history = {}
    /\ ConfigLoaded
    /\ ScopeIdle
    /\ DialogClosed

\* The exploration stops at the bounds.
WithinBounds(db) == \A i \in db.items : i.quantity <= MaxQty

Apply(op, r) ==
    /\ last = Idle
    /\ WithinBounds(r.db)
    /\ itemTypes' = r.db.types
    /\ items' = r.db.items
    /\ transactions' = r.db.txns
    /\ last' = [op |-> op, result |-> r.exc, ret |-> r.ret]
    /\ commits' = IF r.db = committed THEN commits ELSE commits + 1
    /\ commits' <= MaxCommits
    /\ UNCHANGED <<search_history, configVars, scopeVars, dialog>>

EventLoop ==
    /\ last # Idle
    /\ last' = Idle
    /\ UNCHANGED <<itemTypes, items, transactions, commits, search_history, configVars,
                   scopeVars, dialog>>

TypeCreate ==
    \E name \in Names, sub_type \in SubTypeArgs, is_serialized \in BOOLEAN,
       x \in TypeDefaults :
        Apply("ItemTypeRepository.create",
              ItemTypeRepository_create(committed, name, sub_type, is_serialized,
                                        x.details, x.fault))

TypeGetOrCreate ==
    \E name \in Names, sub_type \in SubTypeArgs, is_serialized \in BOOLEAN,
       x \in TypeExtras :
        Apply("ItemTypeRepository.get_or_create",
              ItemTypeRepository_get_or_create(committed, name, sub_type, is_serialized,
                                               x.details, x.fault))

TypeUpdate ==
    \E type_id \in TypeIdArgs, key \in {<<NULL, NULL>>} \cup (Names \X {""}),
       is_serialized \in OptBool, x \in TypeExtras :
        Apply("ItemTypeRepository.update",
              ItemTypeRepository_update(committed, type_id, key[1], key[2], is_serialized,
                                        x.details, x.fault))

TypeDelete ==
    \E type_id \in TypeIdArgs, fault \in Faults :
        Apply("ItemTypeRepository.delete",
              ItemTypeRepository_delete(committed, type_id, fault))

ItemCreate ==
    \E item_type_id \in TypeIdArgs, quantity \in QuantityArgs,
       serial_number \in SerialArgs \ {""}, x \in ItemDefaults :
        Apply("ItemRepository.create",
              ItemRepository_create(committed, item_type_id, quantity, serial_number,
                                    x.location, x.condition, x.notes, x.fault))

ItemCreateSerialized ==
    \E item_type_id \in TypeIdArgs, serial_number \in SerialArgs \ {NULL},
       x \in ItemExtras :
        Apply("ItemRepository.create_serialized",
              ItemRepository_create_serialized(committed, item_type_id, serial_number,
                                               x.location, x.condition, x.notes, x.fault))

ItemUpdate ==
    \E item_id \in ItemIdArgs, serial_number \in SerialArgs, x \in ItemDefaults :
        Apply("ItemRepository.update",
              ItemRepository_update(committed, item_id, serial_number, x.location,
                                    x.condition, x.fault))

ItemEditItem ==
    \E item_id \in ItemIdArgs, item_type_id \in TypeIdArgs, quantity \in QuantityArgs,
       serial_number \in SerialArgs \ {NULL}, x \in ItemExtras :
        Apply("ItemRepository.edit_item",
              ItemRepository_edit_item(committed, item_id, item_type_id, quantity,
                                       serial_number, x.location, x.condition,
                                       IF x.notes = NULL THEN "" ELSE x.notes, x.fault))

ItemDelete ==
    \E item_id \in ItemIdArgs, fault \in Faults :
        Apply("ItemRepository.delete", ItemRepository_delete(committed, item_id, fault))

ItemAddQuantity ==
    \E item_id \in ItemIdArgs, quantity \in QuantityArgs, x \in ItemDefaults :
        Apply("ItemRepository.add_quantity",
              ItemRepository_add_quantity(committed, item_id, quantity, x.notes, x.fault))

ItemRemoveQuantity ==
    \E item_id \in ItemIdArgs, quantity \in QuantityArgs, x \in ItemDefaults :
        Apply("ItemRepository.remove_quantity",
              ItemRepository_remove_quantity(committed, item_id, quantity, x.notes,
                                             x.fault))

ItemDeleteBySerialNumbers ==
    \E serial_numbers \in SUBSET (SerialArgs \ {NULL, ""}), fault \in Faults :
        Apply("ItemRepository.delete_by_serial_numbers",
              ItemRepository_delete_by_serial_numbers(committed, serial_numbers, "",
                                                      fault))

ServiceCreateItem ==
    \E name \in Names, sub_type \in SubTypeArgs, is_serialized \in BOOLEAN,
       given \in {<<0, NULL>>, <<1, "SN1">>}, x \in TypeDefaults :
        Apply("InventoryService.create_item",
              InventoryService_create_item(committed, name, sub_type, given[1],
                                           is_serialized, given[2], "", "", "",
                                           x.details, x.fault))

Next ==
    \/ TypeCreate
    \/ TypeGetOrCreate
    \/ TypeUpdate
    \/ TypeDelete
    \/ ItemCreate
    \/ ItemCreateSerialized
    \/ ItemUpdate
    \/ ItemEditItem
    \/ ItemDelete
    \/ ItemAddQuantity
    \/ ItemRemoveQuantity
    \/ ItemDeleteBySerialNumbers
    \/ ServiceCreateItem
    \/ EventLoop

Spec == Init /\ [][Next]_vars

(***************************************************************************)
(* The same state machine started from a stocked store: the database left  *)
(* by five calls made on the empty one (a bulk type A holding one row of   *)
(* two units, a serialized type B holding the units SN1 and SN2), with one *)
(* more committed call to go.                                              *)
(***************************************************************************)
StockedDb ==
    LET d0 == Db({}, {}, {})
        d1 == ItemTypeRepository_create(d0, "A", "", FALSE, NULL, "none").db
        d2 == ItemTypeRepository_create(d1, "B", "", TRUE, NULL, "none").db
        d3 == ItemRepository_create(d2, 1, MaxQty, NULL, NULL, NULL, NULL, "none").db
        d4 == ItemRepository_create_serialized(d3, 2, "SN1", NULL, NULL, NULL, "none").db
    IN ItemRepository_create_serialized(d4, 2, "SN2", NULL, NULL, NULL, "none").db

InitStocked ==
    /\ itemTypes = StockedDb.types
    /\ items = StockedDb.items
    /\ transactions = StockedDb.txns
    /\ last = Idle
    /\ commits = MaxCommits - 1
    /\ search_history = {}
    /\ ConfigLoaded
    /\ ScopeIdle
    /\ DialogClosed

SpecStocked == InitStocked /\ [][Next]_vars

(***************************************************************************)
(* The search history: the rows of the search_history table, each with its *)
(* id, its (search_query, search_field) pair and its created_at reading of *)
(* the wall clock.  Clock readings are ticks: a reading is never earlier   *)
(* than the latest one stored, and two calls made within one tick of the   *)
(* clock read the same value.                                              *)
(***************************************************************************)
MAX_HISTORY == 5

SearchQueryArgs == {"q1", "q2", "q3"}

SearchFieldArgs == {NULL, "item_type"}

\* datetime.now(timezone.utc) as read by a call made on the table rows.
Now(rows) ==
    LET latest == IF rows = {} THEN 0 ELSE MaxOf({h.created_at : h \in rows})
    IN {latest, latest + 1}

Entries(seq) == {seq[i] : i \in 1 .. Len(seq)}

\* .order_by(SearchHistory.created_at.desc()).all(): every order the database
\* may answer with; rows of equal created_at come in any order.
RECURSIVE OrderByCreatedAtDesc(_)
OrderByCreatedAtDesc(rows) ==
    IF rows = {} THEN {<<>>}
    ELSE LET newest == {h \in rows : \A o \in rows : o.created_at <= h.created_at}
         IN UNION {{<<h>> \o rest : rest \in OrderByCreatedAtDesc(rows \ {h})} :
                   h \in newest}

NewSearchHistory(rows, search_query, search_field, now) ==
    [id |-> NextId(rows), search_query |-> search_query,
     search_field |-> search_field, created_at |-> now]

\* add without the pruning of the entries beyond MAX_HISTORY.
SearchHistoryRepository_add_NoPrune(rows, search_query, search_field, now, fault) ==
    LET existing == {h \in rows : /\ h.search_query = search_query
                                  /\ h.search_field = search_field}
        history == NewSearchHistory(rows, search_query, search_field, now)
    IN IF fault # "none" THEN {[rows |-> rows, exc |-> "StorageError", ret |-> 0]}
       ELSE IF existing # {}
       THEN {[rows |-> (rows \ {e}) \cup {[e EXCEPT !.created_at = now]},
              exc |-> "none", ret |-> e.id] : e \in existing}
       ELSE {[rows |-> rows \cup {history}, exc |-> "none", ret |-> history.id]}

\* The outcomes of add: one for every order the database may answer with.
SearchHistoryRepository_add(rows, search_query, search_field, now, fault) ==
    LET existing == {h \in rows : /\ h.search_query = search_query
                                  /\ h.search_field = search_field}
        history == NewSearchHistory(rows, search_query, search_field, now)
        inserted == rows \cup {history}
        kept ==
            IF Cardinality(inserted) > MAX_HISTORY
            THEN {Entries(SubSeq(all_history, 1, MAX_HISTORY)) :
                  all_history \in OrderByCreatedAtDesc(inserted)}
            ELSE {inserted}
    IN IF fault # "none" THEN {[rows |-> rows, exc |-> "StorageError", ret |-> 0]}
       ELSE IF existing # {}
       THEN {[rows |-> (rows \ {e}) \cup {[e EXCEPT !.created_at = now]},
              exc |-> "none", ret |-> e.id] : e \in existing}
       ELSE {[rows |-> k, exc |-> "none", ret |-> history.id] : k \in kept}

\* The lists get_recent may return.
SearchHistoryRepository_get_recent(rows, limit) ==
    {SubSeq(history, 1, IF Len(history) < limit THEN Len(history) ELSE limit) :
     history \in OrderByCreatedAtDesc(rows)}

SearchHistoryRepository_clear(rows, fault) ==
    IF fault # "none" THEN [rows |-> rows, exc |-> "StorageError", ret |-> 0]
    ELSE [rows |-> {}, exc |-> "none", ret |-> 0]

ApplyHistory(op, r) ==
    /\ last = Idle
    /\ search_history' = r.rows
    /\ last' = [op |-> op, result |-> r.exc, ret |-> r.ret]
    /\ commits' = IF r.rows = search_history THEN commits ELSE commits + 1
    /\ commits' <= MaxCommits
    /\ UNCHANGED <<itemTypes, items, transactions, configVars, scopeVars, dialog>>

HistoryAdd ==
    \E search_query \in SearchQueryArgs, search_field \in SearchFieldArgs,
       now \in Now(search_history), fault \in Faults :
        \E r \in SearchHistoryRepository_add(search_history, search_query, search_field,
                                             now, fault) :
            ApplyHistory("SearchHistoryRepository.add", r)

\* ret is the id of the first entry of the returned list (0 for an empty list).
HistoryGetRecent ==
    \E recent \in SearchHistoryRepository_get_recent(search_history, MAX_HISTORY) :
        ApplyHistory("SearchHistoryRepository.get_recent",
                     [rows |-> search_history, exc |-> "none",
                      ret |-> IF recent = <<>> THEN 0 ELSE recent[1].id])

HistoryClear ==
    \E fault \in Faults :
        ApplyHistory("SearchHistoryRepository.clear",
                     SearchHistoryRepository_clear(search_history, fault))

\* The table left by four searches made on the empty one, each a tick after
\* the one before (tick = 1) or all four within one tick of the clock (tick = 0).
StockedHistory(tick) ==
    LET Add(rows, q, f, now) ==
            (CHOOSE r \in SearchHistoryRepository_add(rows, q, f, now, "none") : TRUE).rows
        h1 == Add({}, "q1", NULL, 1)
        h2 == Add(h1, "q1", "item_type", 1 + tick)
        h3 == Add(h2, "q2", NULL, 1 + 2 * tick)
    IN Add(h3, "q2", "item_type", 1 + 3 * tick)

InitHistory ==
    /\ itemTypes = {}
    /\ items = {}
    /\ transactions = {}
    /\ last = Idle
    /\ commits = 0
    /\ search_history \in {{}, StockedHistory(1), StockedHistory(0)}
    /\ ConfigLoaded
    /\ ScopeIdle
    /\ DialogClosed

NextHistory ==
    \/ HistoryAdd
    \/ HistoryGetRecent
    \/ HistoryClear
    \/ EventLoop

SpecHistory == InitHistory /\ [][NextHistory]_vars

(***************************************************************************)
(* The configuration's state machine: set, reset, and the start of a new   *)
(* process, which loads the file the last one left.                        *)
(***************************************************************************)
ApplyConfig(op, st) ==
    /\ last = Idle
    /\ DEFAULT_CONFIG' = st.DEFAULT_CONFIG
    /\ config' = st.config
    /\ aliased' = st.aliased
    /\ CONFIG_FILE' = st.CONFIG_FILE
    /\ last' = [op |-> op, result |-> "none", ret |-> 0]
    /\ UNCHANGED <<itemTypes, items, transactions, commits, search_history, scopeVars,
                   dialog>>

ConfigSet ==
    \E key \in KeyArgs, save \in BOOLEAN, written \in BOOLEAN :
        \E value \in ValueArgs(key) :
            ApplyConfig("Config.set",
                        Config_set(ConfigState(DEFAULT_CONFIG, config, aliased, CONFIG_FILE),
                                   key, value, save, written))

ConfigReset ==
    \E written \in BOOLEAN :
        ApplyConfig("Config.reset",
                    Config_reset(ConfigState(DEFAULT_CONFIG, config, aliased, CONFIG_FILE),
                                 written))

ConfigRestart ==
    \E written \in BOOLEAN :
        ApplyConfig("Config.load", Config_load(CONFIG_FILE, written))

InitConfig ==
    /\ itemTypes = {}
    /\ items = {}
    /\ transactions = {}
    /\ last = Idle
    /\ commits = 0
    /\ search_history = {}
    /\ ScopeIdle
    /\ DialogClosed
    /\ \E written \in BOOLEAN :
          LET st == Config_load(NoFile, written)
          IN /\ DEFAULT_CONFIG = st.DEFAULT_CONFIG
             /\ config = st.config
             /\ aliased = st.aliased
             /\ CONFIG_FILE = st.CONFIG_FILE

NextConfig ==
    \/ ConfigSet
    \/ ConfigReset
    \/ ConfigRestart
    \/ EventLoop

SpecConfig == InitConfig /\ [][NextConfig]_vars

(***************************************************************************)
(* The steps of one call of session_scope.  A new call starts when the one *)
(* before has returned or raised.                                          *)
(***************************************************************************)
ScopeFrame ==
    UNCHANGED <<itemTypes, items, transactions, last, commits, search_history, configVars,
                dialog>>

\* session = get_session(); the body starts.
ScopeEnter ==
    /\ scope.pc \in {"idle", "returned", "raised"}
    /\ Len(sessions) < MaxSessions
    /\ sessions' = Append(sessions, [state |-> "open", txn |-> "active", writes |-> stored])
    /\ scope' = [NoCall EXCEPT !.pc = "body", !.before = stored]
    /\ UNCHANGED stored
    /\ ScopeFrame

\* The body ends normally, having written value (or nothing).
ScopeBodyReturns ==
    /\ scope.pc = "body"
    /\ \E value \in WriteArgs \cup {stored} :
          sessions' = [sessions EXCEPT ![current].writes = value]
    /\ scope' = [scope EXCEPT !.pc = "commit", !.body = "returned"]
    /\ UNCHANGED stored
    /\ ScopeFrame

\* The body raises, having written value (or nothing).
ScopeBodyRaises ==
    /\ scope.pc = "body"
    /\ \E value \in WriteArgs \cup {stored} :
          sessions' = [sessions EXCEPT ![current].writes = value]
    /\ \E exc \in BodyExceptions :
          scope' = [scope EXCEPT !.pc = IF IsException(exc) THEN "except" ELSE "finally",
                                 !.exc = exc, !.body = "raised"]
    /\ UNCHANGED stored
    /\ ScopeFrame

\* session.commit(): it stores the writes, or raises.
ScopeCommit ==
    /\ scope.pc = "commit"
    /\ \E ok \in BOOLEAN :
          IF ok
          THEN /\ sessions' = [sessions EXCEPT ![current].txn = "committed"]
               /\ stored' = sessions[current].writes
               /\ scope' = [scope EXCEPT !.pc = "finally", !.log = Append(@, "commit")]
          ELSE /\ scope' = [scope EXCEPT !.pc = "except", !.exc = "CommitError",
                                         !.log = Append(@, "commit")]
               /\ UNCHANGED <<sessions, stored>>
    /\ ScopeFrame

\* except Exception: session.rollback(), then raise; rollback() may itself raise.
ScopeExcept ==
    /\ scope.pc = "except"
    /\ \E ok \in BOOLEAN :
          IF ok
          THEN /\ sessions' = [sessions EXCEPT ![current].txn = "rolled_back",
                                               ![current].writes = stored]
               /\ scope' = [scope EXCEPT !.pc = "finally", !.exc = Reraise(@),
                                         !.log = Append(@, "rollback")]
          ELSE /\ scope' = [scope EXCEPT !.pc = "finally", !.exc = "RollbackError",
                                         !.log = Append(@, "rollback")]
               /\ UNCHANGED sessions
    /\ UNCHANGED stored
    /\ ScopeFrame

\* finally: session.close(); then the call returns, or the exception in
\* flight propagates to the caller.
ScopeFinally ==
    /\ scope.pc = "finally"
    /\ sessions' = [sessions EXCEPT ![current] = Session_close(@)]
    /\ scope' = [scope EXCEPT !.pc = IF scope.exc = "none" THEN "returned" ELSE "raised",
                              !.log = Append(@, "close")]
    /\ UNCHANGED stored
    /\ ScopeFrame

\* The steps of a call that is under way.
ScopeStep ==
    \/ ScopeBodyReturns
    \/ ScopeBodyRaises
    \/ ScopeCommit
    \/ ScopeExcept
    \/ ScopeFinally

InitScope ==
    /\ itemTypes = {}
    /\ items = {}
    /\ transactions = {}
    /\ last = Idle
    /\ commits = 0
    /\ search_history = {}
    /\ ConfigLoaded
    /\ ScopeIdle
    /\ DialogClosed

NextScope ==
    \/ ScopeEnter
    \/ ScopeStep

\* The thread that entered session_scope keeps running: a call under way
\* takes its next step.
SpecScope == InitScope /\ [][NextScope]_vars /\ WF_vars(ScopeStep)

(***************************************************************************)
(* The dialog's events.  The dialog is modal: the store does not change    *)
(* while it is open.  last is the latest run of the change handler and the *)
(* exception it caught.                                                    *)
(***************************************************************************)
DialogFrame ==
    UNCHANGED <<itemTypes, items, transactions, commits, search_history, configVars,
                scopeVars>>

Changed(d, fault) ==
    LET r == AddItemDialog_on_type_or_subtype_changed(d, committed, fault)
    IN /\ dialog' = r.d
       /\ last' = [op |-> "AddItemDialog._on_type_or_subtype_changed",
                   result |-> r.exc, ret |-> 0]
       /\ DialogFrame

\* AddItemDialog(): empty fields, then the handler is run once.
DialogOpen ==
    /\ ~dialog.open
    /\ \E fault \in Faults : Changed([NoDialog EXCEPT !.open = TRUE], fault)

\* textChanged of the type field.
DialogTypeEdited ==
    /\ dialog.open
    /\ \E text \in TypeTexts \ {dialog.type_edit}, fault \in Faults :
          Changed([dialog EXCEPT !.type_edit = text], fault)

\* textChanged of the sub-type field.
DialogSubtypeEdited ==
    /\ dialog.open
    /\ \E text \in SubtypeTexts \ {dialog.subtype_edit}, fault \in Faults :
          Changed([dialog EXCEPT !.subtype_edit = text], fault)

\* The user clicks the checkbox, which takes clicks only while enabled.
DialogToggled ==
    /\ dialog.open
    /\ dialog.enabled
    /\ dialog' = [dialog EXCEPT !.checked = ~@]
    /\ UNCHANGED last
    /\ DialogFrame

\* The dialog is closed (accepted or cancelled).
DialogDone ==
    /\ dialog.open
    /\ dialog' = NoDialog
    /\ last' = Idle
    /\ DialogFrame

\* The types the dialog is opened on: a bulk type A, a serialized type A/x
\* and a serialized type B.
DialogDb ==
    LET d0 == Db({}, {}, {})
        d1 == ItemTypeRepository_create(d0, "A", "", FALSE, NULL, "none").db
        d2 == ItemTypeRepository_create(d1, "A", "x", TRUE, NULL, "none").db
    IN ItemTypeRepository_create(d2, "B", NULL, TRUE, NULL, "none").db

InitDialog ==
    /\ itemTypes \in {{}, DialogDb.types}
    /\ items = {}
    /\ transactions = {}
    /\ last = Idle
    /\ commits = 0
    /\ search_history = {}
    /\ ConfigLoaded
    /\ ScopeIdle
    /\ DialogClosed

NextDialog ==
    \/ DialogOpen
    \/ DialogTypeEdited
    \/ DialogSubtypeEdited
    \/ DialogToggled
    \/ DialogDone

SpecDialog == InitDialog /\ [][NextDialog]_vars

(***************************************************************************)
(* Properties.                                                             *)
(***************************************************************************)
ItemsOfType(its, type_id) == {i \in its : i.item_type_id = type_id}

NewTransactions == transactions' \ transactions

StoreUnchanged == UNCHANGED <<itemTypes, items, transactions>>

\* C1: in every committed state every Item row is either a bulk row
\* (serial_number null, quantity > 0) or a serialized row (serial_number
\* non-null, quantity = 1).
C1_ItemRowModes ==
    \A i \in items :
        \/ i.serial_number = NULL /\ i.quantity > 0
        \/ i.serial_number # NULL /\ i.quantity = 1

\* remove_quantity of the whole on-hand quantity was refused by the storage
\* check, and the row is still there with its positive quantity.
C1_Witness ==
    /\ last.op = "ItemRepository.remove_quantity"
    /\ last.result = "IntegrityError"
    /\ items # {}

\* C2: in every committed state each Item agrees with its ItemType's
\* is_serialized flag: serialized type => serial_number non-null and
\* quantity 1; non-serialized type => serial_number null and quantity >= 1.
C2_ModeAgreesWithType ==
    \A i \in items : \A t \in itemTypes :
        i.item_type_id = t.id =>
            IF t.is_serialized
            THEN i.serial_number # NULL /\ i.quantity = 1
            ELSE i.serial_number = NULL /\ i.quantity >= 1

\* The refusal, asked of the code in a given state: every update that asks
\* for the other flag value on a type with items.
C3_UpdateRefused ==
    \A t \in itemTypes :
        ItemsOfType(items, t.id) # {} =>
            \A key \in {<<NULL, NULL>>} \cup (Names \X {""}), x \in TypeExtras :
                LET r == ItemTypeRepository_update(committed, t.id, key[1], key[2],
                                                   <<~t.is_serialized>>, x.details, x.fault)
                IN r.exc = "ValueError" /\ r.db = committed

\* C3: once an ItemType has an Item no step changes its is_serialized; an
\* update asking for the other value raises ValueError and changes nothing,
\* whatever name, sub_type and details come with it.
C3_SerializedImmutable ==
    /\ []C3_UpdateRefused
    /\ [][ /\ \A t \in itemTypes : \A u \in itemTypes' :
                 (ItemsOfType(items, t.id) # {} /\ u.id = t.id)
                     => u.is_serialized = t.is_serialized
           /\ (last'.op = "ItemTypeRepository.update" /\ last'.result = "ValueError")
                 => StoreUnchanged ]_vars

\* An update that asked to flip the flag of a type with items has been refused.
C3_Witness ==
    /\ last.op = "ItemTypeRepository.update"
    /\ last.result = "ValueError"
    /\ \E t \in itemTypes : ItemsOfType(items, t.id) # {}

\* C4: in every committed state no two ItemType rows share (name, sub_type).
C4_UniqueTypeKey ==
    \A a, b \in itemTypes :
        (a.name = b.name /\ a.sub_type = b.sub_type) => a.id = b.id

\* An update that renamed a type to the key of another one has been refused,
\* and both rows are still there.
C4_Witness ==
    /\ last.op = "ItemTypeRepository.update"
    /\ last.result = "IntegrityError"
    /\ Cardinality(itemTypes) >= 2

\* The calls that log one transaction, and the quantity of an item row.
C5_Calls ==
    {"ItemRepository.create", "ItemRepository.add_quantity",
     "ItemRepository.remove_quantity", "ItemRepository.edit_item"}

QuantityOf(its, item_id) ==
    IF \E i \in its : i.id = item_id
    THEN (CHOOSE i \in its : i.id = item_id).quantity
    ELSE 0

\* C5: a successful ItemRepository.create, add_quantity, remove_quantity or
\* edit_item keeps every earlier Transaction and adds exactly one, whose
\* quantity_before and quantity_after are the item's quantity before and
\* after the call (0 before for a creation).
C5_OneTransactionPerCall ==
    [][ (last'.op \in C5_Calls /\ last'.result = "none" /\ last'.ret # 0) =>
            /\ transactions \subseteq transactions'
            /\ Cardinality(NewTransactions) = 1
            /\ \A x \in NewTransactions :
                  /\ x.quantity_before =
                        IF last'.op = "ItemRepository.create" THEN 0
                        ELSE QuantityOf(items, last'.ret)
                  /\ x.quantity_after = QuantityOf(items', last'.ret) ]_vars

\* remove_quantity has returned the item, after an earlier creation: two
\* transactions are on record.
C5_Witness ==
    /\ last.op = "ItemRepository.remove_quantity"
    /\ last.result = "none"
    /\ last.ret # 0
    /\ Cardinality(transactions) = 2

\* C6: a repository call that raised (in validation, at a constraint, at a
\* flush or at the commit) leaves the committed store as it was; a new Item
\* or a changed quantity is committed together with exactly one Transaction,
\* and a Transaction is committed only together with the item change it
\* records (an edit_item that changes no field records an empty change).
C6_Atomic ==
    [][ /\ (last'.op \notin {"idle", "InventoryService.create_item"}
              /\ last'.result # "none") => StoreUnchanged
        /\ (\E i \in items' : \A j \in items : j.id # i.id)
              => Cardinality(NewTransactions) = 1
        /\ (\E i \in items : \E j \in items' : i.id = j.id /\ i.quantity # j.quantity)
              => Cardinality(NewTransactions) = 1
        /\ NewTransactions # {}
              => (items' # items \/ last'.op = "ItemRepository.edit_item") ]_vars

\* The storage layer failed inside a valid ItemRepository.create, the call
\* raised, and neither the item nor its transaction is there.
C6_Witness ==
    /\ last.op = "ItemRepository.create"
    /\ last.result = "StorageError"
    /\ itemTypes # {}
    /\ items = {}
    /\ transactions = {}

C8_AggregateBeforeAfter ==
    [][ \A x \in NewTransactions :
          /\ x.quantity_before = total_quantity(items, x.item_type_id)
          /\ x.quantity_after = total_quantity(items', x.item_type_id) ]_vars

\* The conflict, asked of the code in a given state, for every existing type.
C9_ConflictRefused ==
    \A t \in itemTypes :
        \A sub_type \in {t.sub_type} \cup {s \in SubTypeArgs : OrElse(s, "") = t.sub_type},
           x \in TypeExtras :
            LET r == ItemTypeRepository_get_or_create(committed, t.name, sub_type,
                                                      ~t.is_serialized, x.details, x.fault)
                q == InventoryService_create_item(committed, t.name, sub_type, 1,
                                                  ~t.is_serialized, "SN1", "", "", "",
                                                  x.details, x.fault)
            IN /\ r.exc = "ValueError" /\ r.db = committed
               /\ q.exc = "ValueError" /\ q.db = committed

\* C9: for an existing (name, sub_type), get_or_create and
\* InventoryService.create_item called with the opposite is_serialized raise
\* ValueError and commit nothing, with or without items of that type.
C9_ConflictingFlagRaises ==
    /\ []C9_ConflictRefused
    /\ [][ (/\ last'.op \in {"ItemTypeRepository.get_or_create",
                             "InventoryService.create_item"}
            /\ last'.result = "ValueError") => StoreUnchanged ]_vars

\* get_or_create has raised ValueError on the one existing type, which has
\* an item.
C9_Witness ==
    /\ last.op = "ItemTypeRepository.get_or_create"
    /\ last.result = "ValueError"
    /\ Cardinality(itemTypes) = 1
    /\ \E t \in itemTypes : ItemsOfType(items, t.id) # {}

\* Two calls in a row with one key and flag, from a given state.
C10_SecondCallGets ==
    \A name \in Names, sub_type \in SubTypeArgs, is_serialized \in BOOLEAN :
        /\ \A given \in DetailsArgs :
              LET first == ItemTypeRepository_get_or_create(committed, name, sub_type,
                                                            is_serialized, given, "none")
              IN first.exc = "none" =>
                    /\ \A details \in DetailsArgs :
                          LET second == ItemTypeRepository_get_or_create(
                                            first.db, name, sub_type, is_serialized,
                                            details, "none")
                          IN /\ second.exc = "none"
                             /\ second.ret = first.ret
                             /\ second.db = first.db
                    /\ Cardinality({t \in first.db.types :
                                      t.name = name /\ t.sub_type = ""}) = 1
        /\ sub_type = NULL =>
              \A x \in TypeExtras :
                  ItemTypeRepository_get_or_create(committed, name, NULL, is_serialized,
                                                   x.details, x.fault)
                    = ItemTypeRepository_get_or_create(committed, name, "", is_serialized,
                                                       x.details, x.fault)

\* C10: get_or_create with the same (name, sub_type, is_serialized) returns
\* the same id every time, leaves one row with that key, and on a get leaves
\* the row (details included) as it was whatever details is passed; an
\* absent sub_type is the empty string.
C10_GetOrCreateIdempotent ==
    /\ []C10_SecondCallGets
    /\ [][ (last'.op = "ItemTypeRepository.get_or_create" /\ last'.result = "none") =>
              /\ itemTypes \subseteq itemTypes'
              /\ UNCHANGED <<items, transactions>>
              /\ \E t \in itemTypes' : t.id = last'.ret
              /\ (\E t \in itemTypes : t.id = last'.ret) => itemTypes' = itemTypes ]_vars

\* get_or_create has returned a type that already has an item, hence one
\* that existed before the call.
C10_Witness ==
    /\ last.op = "ItemTypeRepository.get_or_create"
    /\ last.result = "none"
    /\ ItemsOfType(items, last.ret) # {}

\* The cases in which ItemRepository.create must refuse, and what a create
\* that went through has done to the store.
C11_MustRefuse(item_type_id, quantity, serial_number) ==
    \/ ~ \E t \in itemTypes : t.id = item_type_id
    \/ \E t \in itemTypes :
          /\ t.id = item_type_id
          /\ IF t.is_serialized
             THEN serial_number \in {NULL, ""} \/ quantity # 1
             ELSE serial_number \notin {NULL, ""} \/ quantity < 1

C11_Refused(r) == r.exc = "ValueError" /\ r.db = committed

C11_Inserted(r, item_type_id, quantity) ==
    /\ r.exc = "none"
    /\ r.db.types = itemTypes
    /\ items \subseteq r.db.items
    /\ Cardinality(r.db.items \ items) = 1
    /\ \A i \in r.db.items \ items :
          i.id = r.ret /\ i.item_type_id = item_type_id /\ i.quantity = quantity

\* C11, as stated: create refuses with ValueError and writes nothing in the
\* listed cases, and in every other case inserts exactly one Item with the
\* given quantity (the storage layer working).
C11_CreateValidatesOrInserts ==
    last = Idle =>
        \A item_type_id \in TypeIdArgs, quantity \in QuantityArgs,
           serial_number \in SerialArgs :
            LET r == ItemRepository_create(committed, item_type_id, quantity,
                                           serial_number, NULL, NULL, NULL, "none")
            IN IF C11_MustRefuse(item_type_id, quantity, serial_number)
               THEN C11_Refused(r)
               ELSE C11_Inserted(r, item_type_id, quantity)

\* C11, amended: the same, except that a valid create whose serial_number
\* another Item already carries is refused by the storage layer with an
\* IntegrityError and writes nothing, and a storage failure writes nothing.
C11_CreateValidatesOrInsertsUnlessSerialTaken ==
    last = Idle =>
        \A item_type_id \in TypeIdArgs, quantity \in QuantityArgs,
           serial_number \in SerialArgs, x \in ItemDefaults :
            LET r == ItemRepository_create(committed, item_type_id, quantity,
                                           serial_number, x.location, x.condition,
                                           x.notes, x.fault)
            IN IF C11_MustRefuse(item_type_id, quantity, serial_number)
               THEN C11_Refused(r)
               ELSE IF /\ serial_number \notin {NULL, ""}
                       /\ \E i \in items : i.serial_number = serial_number
               THEN r.exc = "IntegrityError" /\ r.db = committed
               ELSE IF x.fault # "none"
               THEN r.exc = "StorageError" /\ r.db = committed
               ELSE C11_Inserted(r, item_type_id, quantity)

\* A create that passed validation was refused because its serial number is
\* taken.
C11_Witness ==
    /\ last.op = "ItemRepository.create"
    /\ last.result = "IntegrityError"
    /\ \E i \in items : i.serial_number # NULL

\* C12: create_serialized on a serialized type that has N Items (with a
\* serial number not yet in use) inserts one Item of quantity 1 and one ADD
\* Transaction with quantity_change 1, quantity_before N and quantity_after
\* N + 1; the note is the initial-inventory note when N = 0, whatever the
\* caller passed, and the caller's note (or "") otherwise.
C12_GroupCountLogged ==
    last = Idle =>
        \A t \in itemTypes, serial_number \in SerialArgs \ {NULL, ""}, x \in ItemExtras :
            (/\ t.is_serialized
             /\ x.fault = "none"
             /\ ~ \E i \in items : i.serial_number = serial_number) =>
                LET N == Cardinality(ItemsOfType(items, t.id))
                    r == ItemRepository_create_serialized(committed, t.id, serial_number,
                                                          x.location, x.condition,
                                                          x.notes, x.fault)
                IN /\ r.exc = "none"
                   /\ items \subseteq r.db.items
                   /\ Cardinality(r.db.items \ items) = 1
                   /\ \A i \in r.db.items \ items :
                         /\ i.id = r.ret
                         /\ i.item_type_id = t.id
                         /\ i.quantity = 1
                         /\ i.serial_number = serial_number
                   /\ transactions \subseteq r.db.txns
                   /\ Cardinality(r.db.txns \ transactions) = 1
                   /\ \A a \in r.db.txns \ transactions :
                         /\ a.transaction_type = "ADD"
                         /\ a.item_type_id = t.id
                         /\ a.quantity_change = 1
                         /\ a.quantity_before = N
                         /\ a.quantity_after = N + 1
                         /\ a.notes = IF N = 0 THEN InitialNote
                                      ELSE IF x.notes = NULL THEN "" ELSE x.notes

\* Two successive create_serialized calls on an empty type: the log holds
\* 0 -> 1 with the initial note, then 1 -> 2.
C12_Witness ==
    /\ last.op = "ItemRepository.create_serialized"
    /\ last.result = "none"
    /\ \E a, b \in transactions :
          /\ a.item_type_id = b.item_type_id
          /\ a.quantity_before = 0 /\ a.quantity_after = 1 /\ a.notes = InitialNote
          /\ b.quantity_before = 1 /\ b.quantity_after = 2
          /\ b.serial_number # a.serial_number
    /\ Cardinality(items) = 2

\* The quantities a caller may ask for, the unusable ones included.
C13_Quantities == (-1) .. (MaxQty + 1)

\* C13: add_quantity and remove_quantity with quantity <= 0, and
\* remove_quantity with more than the item holds, raise ValueError and leave
\* the store (the item's quantity and the transaction log) as it was.
C13_BadQuantityRefused ==
    last = Idle =>
        \A item_id \in ItemIdArgs, quantity \in C13_Quantities, x \in ItemDefaults :
            LET a == ItemRepository_add_quantity(committed, item_id, quantity, x.notes,
                                                 x.fault)
                r == ItemRepository_remove_quantity(committed, item_id, quantity, x.notes,
                                                    x.fault)
            IN /\ quantity <= 0 =>
                     /\ a.exc = "ValueError" /\ a.db = committed
                     /\ r.exc = "ValueError" /\ r.db = committed
               /\ (\E i \in items : i.id = item_id /\ quantity > i.quantity) =>
                     r.exc = "ValueError" /\ r.db = committed

\* remove_quantity has been refused with ValueError on a store that holds an
\* item and its creation record.
C13_Witness ==
    /\ last.op = "ItemRepository.remove_quantity"
    /\ last.result = "ValueError"
    /\ items # {}
    /\ Cardinality(transactions) = Cardinality(items)

\* C14: remove_quantity(item_id, q) on an existing Item holding Q fails only
\* when q <= 0 or q > Q; for every q with 0 < q <= Q it succeeds, leaves the
\* Item with Q - q and appends exactly one REMOVE Transaction with
\* quantity_change q, quantity_before Q and quantity_after Q - q.
C14_RemoveUpToOnHand ==
    last = Idle =>
        \A i \in items, q \in C13_Quantities :
            LET Q == i.quantity
                r == ItemRepository_remove_quantity(committed, i.id, q, NULL, "none")
            IN IF q <= 0 \/ q > Q
               THEN r.exc # "none"
               ELSE /\ r.exc = "none"
                    /\ r.db.items = (items \ {i}) \cup {[i EXCEPT !.quantity = Q - q]}
                    /\ transactions \subseteq r.db.txns
                    /\ Cardinality(r.db.txns \ transactions) = 1
                    /\ \A a \in r.db.txns \ transactions :
                          /\ a.transaction_type = "REMOVE"
                          /\ a.quantity_change = q
                          /\ a.quantity_before = Q
                          /\ a.quantity_after = Q - q

\* C15: a successful edit_item on an existing Item sets its type, quantity,
\* serial_number, location and condition to the given values (an empty
\* serial number is stored as null, an absent place as empty) and adds
\* exactly one EDIT Transaction: quantity_before the previous quantity,
\* quantity_after the new one, quantity_change their absolute difference,
\* notes the edit_reason, item_type_id the item's new type.
C15_EditWritesOneRecord ==
    last = Idle =>
        \A i \in items, item_type_id \in TypeIdArgs, quantity \in QuantityArgs,
           serial_number \in SerialArgs \ {NULL}, x \in ItemExtras,
           edit_reason \in {"", "n"} :
            LET r == ItemRepository_edit_item(committed, i.id, item_type_id, quantity,
                                              serial_number, x.location, x.condition,
                                              edit_reason, x.fault)
                edited == [id |-> i.id, item_type_id |-> item_type_id,
                           quantity |-> quantity,
                           serial_number |-> IF serial_number = "" THEN NULL
                                             ELSE serial_number,
                           location |-> IF x.location = NULL THEN "" ELSE x.location,
                           condition |-> IF x.condition = NULL THEN "" ELSE x.condition]
            IN r.exc = "none" =>
                  /\ r.ret = i.id
                  /\ r.db.types = itemTypes
                  /\ r.db.items = (items \ {i}) \cup {edited}
                  /\ transactions \subseteq r.db.txns
                  /\ Cardinality(r.db.txns \ transactions) = 1
                  /\ \A a \in r.db.txns \ transactions :
                        /\ a.transaction_type = "EDIT"
                        /\ a.item_type_id = item_type_id
                        /\ a.quantity_before = i.quantity
                        /\ a.quantity_after = quantity
                        /\ a.quantity_change >= 0
                        /\ a.quantity_change \in {quantity - i.quantity, i.quantity - quantity}
                        /\ a.notes = edit_reason

\* edit_item has lowered an item's quantity and logged the decrease.
C15_Witness ==
    /\ last.op = "ItemRepository.edit_item"
    /\ last.result = "none"
    /\ \E i \in items : \E a \in transactions :
          /\ i.id = last.ret
          /\ a.transaction_type = "EDIT"
          /\ a.quantity_before > a.quantity_after
          /\ a.quantity_after = i.quantity

\* C16: in every committed state every Item and every Transaction refers to
\* an existing ItemType, and create, create_serialized and edit_item called
\* with an item_type_id that does not exist raise ValueError and write
\* nothing.
C16_ReferentialIntegrity ==
    /\ \A i \in items : \E t \in itemTypes : t.id = i.item_type_id
    /\ \A a \in transactions : \E t \in itemTypes : t.id = a.item_type_id
    /\ last = Idle =>
          LET missing == NextId(itemTypes)
              c == ItemRepository_create(committed, missing, 1, NULL, NULL, NULL, NULL,
                                         "none")
              s == ItemRepository_create_serialized(committed, missing, "SN1", NULL, NULL,
                                                    NULL, "none")
          IN /\ c.exc = "ValueError" /\ c.db = committed
             /\ s.exc = "ValueError" /\ s.db = committed
             /\ \A i \in items :
                   LET e == ItemRepository_edit_item(committed, i.id, missing,
                                                     i.quantity, "", NULL, NULL, "n",
                                                     "none")
                   IN e.exc = "ValueError" /\ e.db = committed

C18_TypeDeleteCascades ==
    last = Idle =>
        \A type_id \in TypeIdArgs :
            LET r == ItemTypeRepository_delete(committed, type_id, "none")
            IN IF \E t \in itemTypes : t.id = type_id
               THEN /\ r.exc = "none"
                    /\ r.ret = 1
                    /\ r.db.types = {t \in itemTypes : t.id # type_id}
                    /\ r.db.items = {i \in items : i.item_type_id # type_id}
                    /\ r.db.txns = {a \in transactions : a.item_type_id # type_id}
               ELSE /\ r.exc = "none"
                    /\ r.ret = 0
                    /\ r.db = committed

\* One of the two stocked types has been deleted: the other one is there
\* with its items and its transactions, and nothing refers to the deleted
\* one.
C18_Witness ==
    /\ last.op = "ItemTypeRepository.delete"
    /\ last.result = "none"
    /\ last.ret = 1
    /\ Cardinality(itemTypes) = 1
    /\ items # {}
    /\ transactions # {}
    /\ \A i \in items : \E t \in itemTypes : t.id = i.item_type_id
    /\ \A a \in transactions : \E t \in itemTypes : t.id = a.item_type_id

C20_UniqueSerialNumbers ==
    \A a, b \in items :
        (a.serial_number # NULL /\ a.serial_number = b.serial_number) => a.id = b.id

\* ItemRepository.update asked to give one unit the serial number of the
\* other and was refused by the storage layer.
C20_Witness ==
    /\ last.op = "ItemRepository.update"
    /\ last.result = "IntegrityError"
    /\ Cardinality(items) = 2
    /\ \A i \in items : i.serial_number # NULL /\ i.quantity = 1

\* A call that reported absence: it returned None (or False), raised nothing
\* and left the committed database as it was.
C23_Absent(r) == r.exc = "none" /\ r.ret = 0 /\ r.db = committed

\* The storage of the calls of C23 works: the commit of the call does not fail.
C23_Args(xs) == {x \in xs : x.fault # "commit"}

\* C23: a call addressed to an id that has no row reports absence instead of
\* raising and changes nothing: ItemRepository.update, edit_item, add_quantity
\* and remove_quantity (quantity > 0) return None, ItemRepository.delete and
\* ItemTypeRepository.delete return False, ItemTypeRepository.update returns
\* None, and no Item, ItemType or Transaction row is added, changed or removed.
C23_AbsentIdReported ==
    last = Idle =>
        /\ \A item_id \in ItemIdArgs \ {i.id : i \in items}, x \in C23_Args(ItemExtras) :
              /\ \A serial_number \in SerialArgs :
                    C23_Absent(ItemRepository_update(committed, item_id, serial_number,
                                                     x.location, x.condition, x.fault))
              /\ \A item_type_id \in TypeIdArgs, quantity \in QuantityArgs,
                    serial_number \in SerialArgs :
                    C23_Absent(ItemRepository_edit_item(committed, item_id, item_type_id,
                                                        quantity, serial_number,
                                                        x.location, x.condition,
                                                        x.notes, x.fault))
              /\ \A quantity \in 1 .. MaxQty + 1 :
                    /\ C23_Absent(ItemRepository_add_quantity(committed, item_id, quantity,
                                                              x.notes, x.fault))
                    /\ C23_Absent(ItemRepository_remove_quantity(committed, item_id,
                                                                 quantity, x.notes,
                                                                 x.fault))
              /\ C23_Absent(ItemRepository_delete(committed, item_id, x.fault))
        /\ \A type_id \in TypeIdArgs \ {t.id : t \in itemTypes}, x \in C23_Args(TypeExtras) :
              /\ C23_Absent(ItemTypeRepository_delete(committed, type_id, x.fault))
              /\ \A name \in Names \cup {NULL}, sub_type \in SubTypeArgs,
                    is_serialized \in OptBool :
                    C23_Absent(ItemTypeRepository_update(committed, type_id, name, sub_type,
                                                         is_serialized, x.details, x.fault))

\* ItemRepository.delete has returned False for an id without a row, on a
\* store that holds items and their records, which are all still there.
C23_Witness ==
    /\ last.op = "ItemRepository.delete"
    /\ last.result = "none"
    /\ last.ret = 0
    /\ items # {}
    /\ transactions # {}

\* C26: create_serialized called with a serial number that already belongs to
\* some Item (of any type) raises ValueError and leaves the Items and the
\* Transactions unchanged.
C26_TakenSerialRaisesValueError ==
    last = Idle =>
        \A item_type_id \in TypeIdArgs, taken \in items, x \in ItemDefaults :
            Truthy(taken.serial_number) /\ x.fault = "none" =>
                LET r == ItemRepository_create_serialized(committed, item_type_id,
                                                          taken.serial_number, x.location,
                                                          x.condition, x.notes, x.fault)
                IN r.exc = "ValueError" /\ r.db = committed

\* C28: InventoryService.create_item is all-or-nothing: whenever it raises,
\* the store is exactly as before the call, so no ItemType row created by its
\* get_or_create step remains without the Item it was created for.
C28_CreateItemAllOrNothing ==
    [][ last'.op = "InventoryService.create_item" /\ last'.result # "none"
            => StoreUnchanged ]_vars

\* C29: every Transaction row satisfies the arithmetic of its type:
\* quantity_change, quantity_before and quantity_after are >= 0; an ADD has
\* after = before + change, a REMOVE has after = before - change, and an EDIT
\* has change = |after - before|.
C29_TransactionArithmetic ==
    \A x \in transactions :
        /\ x.quantity_change >= 0
        /\ x.quantity_before >= 0
        /\ x.quantity_after >= 0
        /\ x.transaction_type = "ADD" =>
              x.quantity_after = x.quantity_before + x.quantity_change
        /\ x.transaction_type = "REMOVE" =>
              x.quantity_after = x.quantity_before - x.quantity_change
        /\ x.transaction_type = "EDIT" =>
              x.quantity_change = Abs(x.quantity_after - x.quantity_before)

\* The log holds an ADD record and an EDIT record that lowered a quantity, so
\* that the EDIT's change is the absolute value of a negative difference.
C29_Witness ==
    /\ \E x \in transactions :
          /\ x.transaction_type = "EDIT"
          /\ x.quantity_after < x.quantity_before
          /\ x.quantity_change = x.quantity_before - x.quantity_after
    /\ \E x \in transactions : x.transaction_type = "ADD" /\ x.quantity_change > 0

\* C21: after any sequence of SearchHistoryRepository.add and clear calls the
\* search_history table holds at most 5 rows, and no two rows have the same
\* (search_query, search_field) pair, pairs whose search_field is None
\* included.
C21_HistoryBoundedAndDistinct ==
    /\ Cardinality(search_history) <= MAX_HISTORY
    /\ \A a, b \in search_history :
          a.search_query = b.search_query /\ a.search_field = b.search_field => a = b

\* An add has inserted a pair with search_field None into a full table: the
\* table still holds 5 rows, and the row just written has an id past 5.
C21_Witness ==
    /\ last.op = "SearchHistoryRepository.add"
    /\ last.result = "none"
    /\ Cardinality(search_history) = MAX_HISTORY
    /\ \E h \in search_history :
          h.id = last.ret /\ h.id > MAX_HISTORY /\ h.search_field = NULL

\* An add step that found its (query, field) pair in the table.
C22_Repeated ==
    /\ last'.op = "SearchHistoryRepository.add"
    /\ last'.result = "none"
    /\ last'.ret \in {h.id : h \in search_history}

\* The row of the pair survives with its id and its pair, it carries the
\* clock reading of the call, and every other row is as it was.
C22_RowTouched ==
    \E h \in search_history, t \in search_history' :
        /\ h.id = last'.ret
        /\ t = [h EXCEPT !.created_at = t.created_at]
        /\ t.created_at \in Now(search_history)
        /\ search_history' \ {t} = search_history \ {h}

\* C22: adding a (query, field) pair that is already in the search history
\* adds no row and removes no row: the row count is unchanged, the existing
\* row keeps its id, its timestamp is set to the time of the later call, and
\* it becomes the first entry returned by get_recent.
C22_RepeatedSearchMovesToTop ==
    [][ C22_Repeated =>
            /\ Cardinality(search_history') = Cardinality(search_history)
            /\ C22_RowTouched
            /\ \A recent \in SearchHistoryRepository_get_recent(search_history',
                                                                MAX_HISTORY) :
                  recent[1].id = last'.ret ]_vars

\* An add step that inserted a new (query, field) pair into a table of 5 rows.
C27_InsertedIntoFull ==
    /\ last'.op = "SearchHistoryRepository.add"
    /\ last'.result = "none"
    /\ last'.ret \notin {h.id : h \in search_history}
    /\ Cardinality(search_history) = MAX_HISTORY

\* The new row is in the table and what left it is one row of the oldest
\* timestamp.
C27_OldestEvicted ==
    \E new \in search_history', old \in search_history :
        /\ new.id = last'.ret
        /\ \A o \in search_history : old.created_at <= o.created_at
        /\ search_history' \ {new} = search_history \ {old}

\* C27: when add inserts a new (query, field) pair into a history that already
\* holds 5 rows, the row removed is the one with the oldest timestamp and the
\* newly added pair is always retained; get_recent then returns the remaining
\* entries most-recent-first with the new pair first, also when several rows
\* carry equal timestamps.
C27_EvictsOldestKeepsNew ==
    [][ C27_InsertedIntoFull =>
            /\ C27_OldestEvicted
            /\ \A recent \in SearchHistoryRepository_get_recent(search_history',
                                                                MAX_HISTORY) :
                  /\ recent[1].id = last'.ret
                  /\ \A i \in 1 .. Len(recent) - 1 :
                        recent[i].created_at >= recent[i + 1].created_at ]_vars

\* C30: Config.reset restores the defaults: after any sequence of Config.set
\* calls (dotted keys into nested sections included) followed by reset(),
\* get(key) returns the value originally declared in DEFAULT_CONFIG for every
\* default key, and DEFAULT_CONFIG itself is never changed by set.
C30_ResetRestoresDefaults ==
    /\ DEFAULT_CONFIG = Declared
    /\ last.op = "Config.reset" =>
          \A key \in KeyArgs : Config_get(config, key) = Config_get(Declared, key)

\* The call of session_scope has ended: it returned, or an exception has
\* reached the caller.
C24_AtExit == scope.pc \in {"returned", "raised"}

\* What holds when a call has ended, whatever path it took.
C24_ExitPaths ==
    /\ \A i \in 1 .. Len(sessions) - 1 : sessions[i].state = "closed"
    /\ C24_AtExit =>
          /\ sessions[current].state = "closed"
          /\ scope.log[Len(scope.log)] = "close"
          /\ ("commit" \in Entries(scope.log)) <=> (scope.body = "returned")
          /\ scope.pc = "returned" =>
                /\ scope.body = "returned"
                /\ sessions[current].txn = "committed"
                /\ stored = sessions[current].writes
          /\ (scope.body = "raised" \/ sessions[current].txn # "committed") =>
                /\ scope.pc = "raised"
                /\ scope.exc # "none"
                /\ sessions[current].txn = "rolled_back"
                /\ stored = scope.before

C24_Open == current > 0 /\ sessions[current].state = "open"

C24_AllClosed == \A i \in 1 .. Len(sessions) : sessions[i].state = "closed"

\* C24: every session opened by session_scope is eventually closed, on every
\* exit path; the session commits exactly when the body finishes without an
\* exception; when the body or the commit raises, the session is rolled back
\* before the exception reaches the caller, and the exception is always
\* re-raised, never swallowed.
C24_SessionScopeExits == []C24_ExitPaths /\ (C24_Open ~> C24_AllClosed)

\* A second call whose commit raised: its session was rolled back and closed
\* and the exception reached the caller, after a first call that committed.
C24_Witness ==
    /\ scope.pc = "raised"
    /\ scope.exc = "CommitError"
    /\ Len(sessions) = 2
    /\ sessions[1] = [state |-> "closed", txn |-> "committed", writes |-> stored]
    /\ sessions[2].state = "closed"
    /\ sessions[2].txn = "rolled_back"

\* The existing types that the trimmed texts of the dialog name.
C25_Matching ==
    IF Strip(dialog.type_edit) = "" THEN {}
    ELSE {t \in itemTypes : /\ t.name = Strip(dialog.type_edit)
                            /\ t.sub_type = Strip(dialog.subtype_edit)}

\* The checkbox is locked on the state of the matching type, or free when no
\* type matches; in both cases the value a submit would send agrees with
\* every existing type of that name and sub-type.
C25_Locked ==
    /\ C25_Matching # {} =>
          /\ ~dialog.enabled
          /\ \A t \in C25_Matching : dialog.checked = t.is_serialized
          /\ dialog.type_status_label # ""
    /\ C25_Matching = {} =>
          /\ dialog.enabled
          /\ dialog.type_status_label = ""
    /\ \A t \in C25_Matching : t.is_serialized = dialog.checked

====
